---- MODULE Spec2Model ----
(***************************************************************************)
(* Heuristically ordered backtracking Sudoku solver (sudoku.ipynb).        *)
(* The grid, the possibility table and the heuristic table are the numpy   *)
(* arrays of the notebook, indexed from 0 as in the source.  The recursive *)
(* function dfsolveAStar is a state machine over an explicit call stack:   *)
(* one frame per call that has selected a cell and is iterating over the   *)
(* snapshot of that cell's digits.  A frame holds the local variable cell  *)
(* and the iterator of the for-loop, split into the numbers still to come  *)
(* and the numbers already handed out (placed); it also records the grid   *)
(* the call was entered with (entry), which the program never reads.       *)
(***************************************************************************)
EXTENDS Integers, Sequences, FiniteSets, TLC

VARIABLES
    sudoku,     \* the 9x9 grid, mutated in place
    poss,       \* the shared possibility table, 9x9x9
    h,          \* the shared heuristic table, 9x9
    num_nodes,  \* global expansion counter
    stack,      \* frames of the calls that are inside their for-loop
    pc,         \* position of the innermost activity
    outcome,    \* result of the top-level call once it has ended
    valid,      \* value returned by a direct valid_sudoku call
    sudoku0     \* the grid as supplied to the top-level call

vars == <<sudoku, poss, h, num_nodes, stack, pc, outcome, valid, sudoku0>>

Idx == 0 .. 8

Digits == 1 .. 9

Cells == Idx \X Idx

----------------------------------------------------------------------------
(* Grid predicates *)

\* np.sum over a 9-element view
SumView(X) == X[0] + X[1] + X[2] + X[3] + X[4] + X[5] + X[6] + X[7] + X[8]

\* np.unique of a 9-element view
Unique(X) == {X[k] : k \in Idx}

\* np.sum over the set of values np.unique returns; a grid holds 0..9 and -1
\* is the only other value the program has at hand
SumSet(U) ==
    (IF -1 \in U THEN -1 ELSE 0)
  + (IF 1 \in U THEN 1 ELSE 0) + (IF 2 \in U THEN 2 ELSE 0) + (IF 3 \in U THEN 3 ELSE 0)
  + (IF 4 \in U THEN 4 ELSE 0) + (IF 5 \in U THEN 5 ELSE 0) + (IF 6 \in U THEN 6 ELSE 0)
  + (IF 7 \in U THEN 7 ELSE 0) + (IF 8 \in U THEN 8 ELSE 0) + (IF 9 \in U THEN 9 ELSE 0)

\* def _contains_duplicates(X)
contains_duplicates_view(X) == SumSet(Unique(X)) # SumView(X)

Column(sol, c) == [k \in Idx |-> sol[k][c]]

\* sol[r:r+3, c:c+3], flattened
Box(sol, r, c) == [k \in Idx |-> sol[r + (k \div 3)][c + (k % 3)]]

\* variant: the 3x3 boxes are not looked at
contains_duplicates_nobox(sol) ==
    \/ \E r \in Idx : contains_duplicates_view(sol[r])
    \/ \E r \in Idx : contains_duplicates_view(Column(sol, r))

contains_duplicates(sol) ==
    \/ \E r \in Idx : contains_duplicates_view(sol[r])
    \/ \E r \in Idx : contains_duplicates_view(Column(sol, r))
    \/ \E r \in {0, 3, 6} : \E c \in {0, 3, 6} :
          contains_duplicates_view(Box(sol, r, c))

RECURSIVE SumRows(_, _)
SumRows(sol, n) == IF n < 0 THEN 0 ELSE SumView(sol[n]) + SumRows(sol, n - 1)

\* np.sum(sol)
SumGrid(sol) == SumRows(sol, 8)

\* variant: the completeness test (the sum) is missing
valid_solution_nosum(sol) == ~contains_duplicates(sol)

\* variant: the sum a complete grid is compared with is off by one
valid_solution_offsum(sol) ==
    ~contains_duplicates(sol) /\ SumGrid(sol) = (1+2+3+4+5+6+7+8+9) * 9 - 1

valid_solution(sol) ==
    ~contains_duplicates(sol) /\ SumGrid(sol) = (1+2+3+4+5+6+7+8+9) * 9

SetCell(sol, pos, v) == [sol EXCEPT ![pos[1]][pos[2]] = v]

\* valid_sudoku: the returned flag and the grid the call leaves behind
valid_sudoku(sol, pos, num) ==
    [valid  |-> ~contains_duplicates(SetCell(sol, pos, num)),
     sudoku |-> SetCell(SetCell(sol, pos, num), pos, 0)]

----------------------------------------------------------------------------
(* Possibility table *)

\* [p if valid_sudoku(sudoku, (i, j), p) else -1 for p in range(1, 10)]
PossRow(sol, i, j) ==
    [k \in Idx |-> IF valid_sudoku(sol, <<i, j>>, k + 1).valid THEN k + 1 ELSE -1]

\* the table returned by reduce_possibilities: entries of filled cells are kept
reduce_possibilities(sol, ps) ==
    [i \in Idx |-> [j \in Idx |->
        IF sol[i][j] = 0 THEN PossRow(sol, i, j) ELSE ps[i][j]]]

\* the grid reduce_possibilities leaves behind: valid_sudoku has written 0
\* into every cell it was called on
reduce_possibilities_grid(sol) ==
    [i \in Idx |-> [j \in Idx |->
        IF sol[i][j] = 0 THEN valid_sudoku(sol, <<i, j>>, 9).sudoku[i][j]
        ELSE sol[i][j]]]

----------------------------------------------------------------------------
(* Heuristic table *)

\* len(poss[i][j][poss[i][j] >= 1])
NumPoss(ps, i, j) == Cardinality({k \in Idx : ps[i][j][k] >= 1})

RECURSIVE RowLoop(_, _, _, _, _, _)
RowLoop(i, j, ps, minimal, k, total) ==
    IF k = 9 THEN total
    ELSE RowLoop(i, j, ps, minimal, k + 1,
                 IF total <= minimal /\ k # j
                 THEN total + NumPoss(ps, i, k) ELSE total)

RECURSIVE ColumnLoop(_, _, _, _, _, _)
ColumnLoop(i, j, ps, minimal, k, total) ==
    IF k = 9 THEN total
    ELSE ColumnLoop(i, j, ps, minimal, k + 1,
                    IF total <= minimal /\ k # i
                    THEN total + NumPoss(ps, k, j) ELSE total)

\* the nested loops over k, l in range(3), n = 3 * k + l
RECURSIVE SquareLoop(_, _, _, _, _, _)
SquareLoop(i, j, ps, minimal, n, total) ==
    IF n = 9 THEN total
    ELSE LET k == n \div 3
             l == n % 3
             start_row == i - (i % 3)
             start_column == j - (j % 3)
         IN  SquareLoop(i, j, ps, minimal, n + 1,
                 IF total <= minimal /\ (k # i \/ l # j)
                 THEN total + NumPoss(ps, start_row + k, start_column + l)
                 ELSE total)

\* variant: a cell above the threshold scores the threshold
small_crossed_heuristics_clamped(i, j, ps, minimal) ==
    LET total == NumPoss(ps, i, j) + 1
    IN  IF 3 < total /\ total <= minimal
        THEN SquareLoop(i, j, ps, minimal, 0,
                 ColumnLoop(i, j, ps, minimal, 0,
                     RowLoop(i, j, ps, minimal, 0, total - 1)))
        ELSE IF 3 < total THEN minimal ELSE total

\* variant: the cell's own count is not raised by one
small_crossed_heuristics_noplus1(i, j, ps, minimal) ==
    LET total == NumPoss(ps, i, j)
    IN  IF 3 <= total /\ total < minimal
        THEN SquareLoop(i, j, ps, minimal, 0,
                 ColumnLoop(i, j, ps, minimal, 0,
                     RowLoop(i, j, ps, minimal, 0, total)))
        ELSE total

small_crossed_heuristics(i, j, ps, minimal) ==
    LET total == NumPoss(ps, i, j) + 1
    IN  IF 3 < total /\ total <= minimal
        THEN SquareLoop(i, j, ps, minimal, 0,
                 ColumnLoop(i, j, ps, minimal, 0,
                     RowLoop(i, j, ps, minimal, 0, total - 1)))
        ELSE total

\* "An enough high value": the source uses 10000000000; every score is at
\* most 9 + 8*9 + 8*9 + 9*9, so any larger start value behaves the same
HighValue == 1000000000

\* the empty cells in the order the double loop of update_heuristics visits
\* them, as indices n = 9 * i + j
RECURSIVE Ascending(_)
Ascending(U) ==
    IF U = {} THEN <<>>
    ELSE LET m == CHOOSE x \in U : \A y \in U : x <= y
         IN  <<m>> \o Ascending(U \ {m})

EmptyInOrder(sol) == Ascending({n \in 0 .. 80 : sol[n \div 9][n % 9] = 0})

\* the scores the loop assigns to the empty cells, given the value minimal
\* has when the first cell of todo is reached
RECURSIVE ScoreLoop(_, _, _)
ScoreLoop(ps, todo, minimal) ==
    IF todo = <<>> THEN <<>>
    ELSE LET n == Head(todo)
             v == small_crossed_heuristics(n \div 9, n % 9, ps, minimal)
         IN  <<v>> \o ScoreLoop(ps, Tail(todo), IF v < minimal THEN v ELSE minimal)

\* variant: a filled cell gets score 1
update_heuristics_filled1(sol, hh, ps) ==
    LET todo   == EmptyInOrder(sol)
        scores == ScoreLoop(ps, todo, HighValue)
        at(n)  == CHOOSE k \in 1 .. Len(todo) : todo[k] = n
    IN  [i \in Idx |-> [j \in Idx |->
            IF sol[i][j] = 0 THEN scores[at(9 * i + j)] ELSE 1]]

\* every empty cell gets its score, every filled cell gets 0
update_heuristics(sol, hh, ps) ==
    LET todo   == EmptyInOrder(sol)
        scores == ScoreLoop(ps, todo, HighValue)
        at(n)  == CHOOSE k \in 1 .. Len(todo) : todo[k] = n
    IN  [i \in Idx |-> [j \in Idx |->
            IF sol[i][j] = 0 THEN scores[at(9 * i + j)] ELSE 0]]

----------------------------------------------------------------------------
(* Cell selector *)

\* h[h > 0]
PositiveScores(hh) == {hh[c[1]][c[2]] : c \in {d \in Cells : hh[d[1]][d[2]] > 0}}

\* np.amin
amin(U) == CHOOSE m \in U : \A x \in U : m <= x

\* np.where(h == np.amin(h[h > 0])): the cells choice() draws from
BestCells(hh) == {c \in Cells : hh[c[1]][c[2]] = amin(PositiveScores(hh))}

\* np.amin of an empty selection raises ValueError
get_cell_to_explore_raises(hh) == PositiveScores(hh) = {}

\* variant: the minimum is taken over all scores, zeros included
get_cell_to_explore_nofilter(hh) ==
    {c \in Cells : \A d \in Cells : hh[c[1]][c[2]] <= hh[d[1]][d[2]]}

\* the cells get_cell_to_explore can return
get_cell_to_explore(hh) == BestCells(hh)

\* poss[cell[0]][cell[1]][poss[cell[0]][cell[1]] > 0], in index order
RECURSIVE NumbersFrom(_, _, _)
NumbersFrom(ps, cell, k) ==
    IF k = 9 THEN <<>>
    ELSE IF ps[cell[1]][cell[2]][k] > 0
         THEN <<ps[cell[1]][cell[2]][k]>> \o NumbersFrom(ps, cell, k + 1)
         ELSE NumbersFrom(ps, cell, k + 1)

\* variant: the call gives up after the first number
Numbers_firstonly(ps, cell) ==
    IF NumbersFrom(ps, cell, 0) = <<>> THEN <<>>
    ELSE <<Head(NumbersFrom(ps, cell, 0))>>

\* variant: the loop runs over range(1, 10) instead of the legal digits
Numbers_all(ps, cell) == <<1, 2, 3, 4, 5, 6, 7, 8, 9>>

\* variant: the loop runs from the largest number down
Numbers_descending(ps, cell) ==
    LET up == NumbersFrom(ps, cell, 0)
    IN  [n \in 1 .. Len(up) |-> up[Len(up) + 1 - n]]

Numbers(ps, cell) == NumbersFrom(ps, cell, 0)

----------------------------------------------------------------------------
(* Input grids *)

\* the solved grid printed by the notebook's driver cell
SolutionRows ==
    << <<2, 9, 1, 3, 5, 7, 8, 4, 6>>,
       <<4, 8, 5, 6, 9, 2, 7, 3, 1>>,
       <<7, 3, 6, 8, 4, 1, 5, 2, 9>>,
       <<9, 7, 2, 4, 1, 5, 6, 8, 3>>,
       <<6, 5, 8, 2, 3, 9, 1, 7, 4>>,
       <<3, 1, 4, 7, 8, 6, 9, 5, 2>>,
       <<5, 4, 3, 9, 6, 8, 2, 1, 7>>,
       <<1, 2, 9, 5, 7, 3, 4, 6, 8>>,
       <<8, 6, 7, 1, 2, 4, 3, 9, 5>> >>

Solution == [i \in Idx |-> [j \in Idx |-> SolutionRows[i + 1][j + 1]]]

\* at most this many cells of the solved grid are blanked in an input grid
MaxEmpty == 4

\* the cells a nearly solved input grid may have blank
Blankable == {<<6, 1>>, <<6, 4>>, <<6, 6>>, <<7, 1>>, <<7, 6>>, <<8, 1>>}

\* the cell whose hint an input grid may have replaced by another digit
Replaceable == {<<8, 4>>}

\* the digits that hint may be replaced by (2 is the digit of the solved grid)
ReplacementDigits == {2, 6, 9}

\* the blank cells of an input grid on which every empty cell has at least
\* two legal digits and the smallest digit of some cell leads nowhere
HardBlank ==
    {<<6, 1>>, <<6, 6>>, <<7, 1>>, <<7, 5>>, <<7, 6>>, <<8, 1>>, <<8, 5>>, <<8, 6>>}

\* the blank cells of an input grid without duplicate and without completion,
\* once the hint at DeadEndHint is replaced by 2: the search fails only after
\* several placements
DeadEndBlank == {<<0, 7>>, <<1, 0>>, <<1, 5>>, <<2, 7>>, <<8, 4>>, <<8, 5>>}

DeadEndHint == <<2, 4>>

\* the blank cells of an input grid whose first empty cell, outside the top
\* left box, has three legal digits, so that its score is extended
WideBlank == {<<0, 3>>, <<0, 4>>, <<0, 5>>, <<5, 3>>, <<7, 3>>}

\* the blank cells of an input grid without duplicate on which, once the hint
\* at CutHint is replaced by 7, the first two empty cells have three legal
\* digits each and the third has none: the score of the second is cut short
\* in the middle of its sums
CutBlank ==
    {<<0, 3>>, <<0, 4>>, <<0, 5>>, <<1, 3>>, <<2, 3>>, <<4, 4>>, <<5, 3>>,
     <<7, 3>>, <<7, 4>>}

CutHint == <<5, 5>>

\* the solved grid with the cells of E blanked and the hint at c set to d
InputGrid(E, c, d) ==
    [i \in Idx |-> [j \in Idx |->
        IF <<i, j>> = c THEN d
        ELSE IF <<i, j>> \in E THEN 0
        ELSE Solution[i][j]]]

InputGrids ==
    {InputGrid(E, c, d) :
        E \in {F \in SUBSET Blankable : Cardinality(F) <= MaxEmpty},
        c \in Replaceable, d \in ReplacementDigits}
    \cup {InputGrid(HardBlank, <<8, 4>>, 2)}
    \cup {InputGrid(DeadEndBlank, DeadEndHint, 2)}
    \cup {InputGrid(WideBlank, <<8, 4>>, 2)}
    \cup {InputGrid(CutBlank, CutHint, 7)}

\* possibilities = [[list(range(1, 10)) ...]], heuristics = [[0 ...]]
InitPoss == [i \in Idx |-> [j \in Idx |-> [k \in Idx |-> k + 1]]]

InitH == [i \in Idx |-> [j \in Idx |-> 0]]

----------------------------------------------------------------------------
(* dfsolveAStar *)

Init ==
    /\ sudoku \in InputGrids
    /\ sudoku0 = sudoku
    /\ poss = InitPoss
    /\ h = InitH
    /\ num_nodes = 0
    /\ stack = <<>>
    /\ pc = "call"
    /\ outcome = "none"
    /\ valid = FALSE

Top == stack[Len(stack)]

Pop == SubSeq(stack, 1, Len(stack) - 1)

\* entry of a call on a grid that is a valid solution: log and return True
EnterSolved ==
    /\ pc = "call"
    /\ valid_solution(sudoku)
    /\ pc' = "return_true"
    /\ UNCHANGED <<sudoku, poss, h, num_nodes, stack, outcome, valid, sudoku0>>

\* entry of a call on any other grid: refresh both tables and select a cell.
\* np.amin raises ValueError when no score is positive; nothing catches it and
\* the top-level call ends with it.  Otherwise the call takes the snapshot of
\* the selected cell's digits the for-loop iterates over.
EnterExplore ==
    /\ pc = "call"
    /\ ~valid_solution(sudoku)
    /\ LET g  == reduce_possibilities_grid(sudoku)
           ps == reduce_possibilities(sudoku, poss)
           hh == update_heuristics(g, h, ps)
       IN  /\ sudoku' = g
           /\ poss' = ps
           /\ h' = hh
           /\ \/ /\ get_cell_to_explore_raises(hh)
                 /\ pc' = "done"
                 /\ outcome' = "ValueError"
                 /\ UNCHANGED stack
              \/ /\ ~get_cell_to_explore_raises(hh)
                 /\ \E cell \in get_cell_to_explore(hh) :
                       stack' = Append(stack,
                                   [cell |-> cell, numbers |-> Numbers(ps, cell),
                                    placed |-> <<>>, entry |-> sudoku])
                 /\ pc' = "loop"
                 /\ UNCHANGED outcome
    /\ UNCHANGED <<num_nodes, valid, sudoku0>>

\* one iteration of the for-loop: place the next number, count it, recur
LoopPlace ==
    /\ pc = "loop"
    /\ Top.numbers # <<>>
    /\ sudoku' = SetCell(sudoku, Top.cell, Head(Top.numbers))
    /\ num_nodes' = num_nodes + 1
    /\ stack' = [stack EXCEPT ![Len(stack)].numbers = Tail(Top.numbers),
                              ![Len(stack)].placed =
                                  Append(Top.placed, Head(Top.numbers))]
    /\ pc' = "call"
    /\ UNCHANGED <<poss, h, outcome, valid, sudoku0>>

\* variant: the cell is not reset
LoopExhausted_noreset ==
    /\ pc = "loop"
    /\ Top.numbers = <<>>
    /\ stack' = Pop
    /\ IF Len(stack) = 1
       THEN pc' = "done" /\ outcome' = "False"
       ELSE pc' = "loop" /\ UNCHANGED outcome
    /\ UNCHANGED <<sudoku, poss, h, num_nodes, valid, sudoku0>>

\* variant: the cell to reset is taken from the shared heuristic table
LoopExhausted_sharedcell ==
    /\ pc = "loop"
    /\ Top.numbers = <<>>
    /\ \E c \in get_cell_to_explore(h) : sudoku' = SetCell(sudoku, c, 0)
    /\ stack' = Pop
    /\ IF Len(stack) = 1
       THEN pc' = "done" /\ outcome' = "False"
       ELSE pc' = "loop" /\ UNCHANGED outcome
    /\ UNCHANGED <<poss, h, num_nodes, valid, sudoku0>>

\* variant: giving up counts as an expansion
LoopExhausted_counted ==
    /\ pc = "loop"
    /\ Top.numbers = <<>>
    /\ sudoku' = SetCell(sudoku, Top.cell, 0)
    /\ num_nodes' = num_nodes + 1
    /\ stack' = Pop
    /\ IF Len(stack) = 1
       THEN pc' = "done" /\ outcome' = "False"
       ELSE pc' = "loop" /\ UNCHANGED outcome
    /\ UNCHANGED <<poss, h, valid, sudoku0>>

\* the for-loop is exhausted: reset the cell and return False to the caller,
\* which goes on with its own loop
LoopExhausted ==
    /\ pc = "loop"
    /\ Top.numbers = <<>>
    /\ sudoku' = SetCell(sudoku, Top.cell, 0)
    /\ stack' = Pop
    /\ IF Len(stack) = 1
       THEN pc' = "done" /\ outcome' = "False"
       ELSE pc' = "loop" /\ UNCHANGED outcome
    /\ UNCHANGED <<poss, h, num_nodes, valid, sudoku0>>

\* a call has returned True: its caller returns True at once
ReturnTrue ==
    /\ pc = "return_true"
    /\ IF stack = <<>>
       THEN pc' = "done" /\ outcome' = "True" /\ UNCHANGED stack
       ELSE pc' = "return_true" /\ stack' = Pop /\ UNCHANGED outcome
    /\ UNCHANGED <<sudoku, poss, h, num_nodes, valid, sudoku0>>

Next ==
    \/ EnterSolved
    \/ EnterExplore
    \/ LoopPlace
    \/ LoopExhausted
    \/ ReturnTrue

Spec == Init /\ [][Next]_vars

\* The interpreter runs the recursion to its end: weak fairness of Next.
\* Next is enabled exactly in the states with pc # "done" and every step of
\* Spec that changes vars is a Next step, so WF_vars(Next) is written here
\* with ENABLED <<Next>>_vars spelled out as pc # "done".
FairSpec == Spec /\ ([]<>(pc = "done") \/ []<><<TRUE>>_vars)

----------------------------------------------------------------------------
(* A direct call of valid_sudoku on an input grid *)

InitValid ==
    /\ sudoku \in InputGrids
    /\ sudoku0 = sudoku
    /\ poss = InitPoss
    /\ h = InitH
    /\ num_nodes = 0
    /\ stack = <<>>
    /\ pc = "idle"
    /\ outcome = "none"
    /\ valid = FALSE

CallValidSudoku ==
    /\ pc = "idle"
    /\ \E pos \in Blankable \cup Replaceable : \E num \in Digits :
          LET r == valid_sudoku(sudoku, pos, num)
          IN  /\ sudoku' = r.sudoku
              /\ valid' = r.valid
    /\ pc' = "returned"
    /\ UNCHANGED <<poss, h, num_nodes, stack, outcome, sudoku0>>

NextValid == CallValidSudoku

SpecValid == InitValid /\ [][NextValid]_vars

----------------------------------------------------------------------------
(* Vocabulary of the properties, stated on the grid alone *)

RowCells(r) == {<<r, k>> : k \in Idx}

ColumnCells(c) == {<<k, c>> : k \in Idx}

BoxCells(b) == {<<3 * (b \div 3) + (k \div 3), 3 * (b % 3) + (k % 3)>> : k \in Idx}

Units == {RowCells(r) : r \in Idx} \cup {ColumnCells(c) : c \in Idx}
             \cup {BoxCells(b) : b \in Idx}

At(g, c) == g[c[1]][c[2]]

EmptyCells(g) == {c \in Cells : At(g, c) = 0}

\* two different cells of one unit hold the same non-zero digit
HasConflict(g) ==
    \E u \in Units : \E c \in u : \E d \in u :
        c # d /\ At(g, c) # 0 /\ At(g, c) = At(g, d)

\* no cell is empty and every row, column and box holds each digit once
CompleteAndValid(g) ==
    /\ EmptyCells(g) = {}
    /\ \A u \in Units : {At(g, c) : c \in u} = Digits

\* digit d is held by no cell that shares a unit with cell c
Fits(g, c, d) ==
    \A u \in Units : c \in u => \A e \in u : e # c => At(g, e) # d

\* the empty cells of g can be filled without conflict
RECURSIVE CanFill(_)
CanFill(g) ==
    IF EmptyCells(g) = {} THEN TRUE
    ELSE LET c == CHOOSE e \in EmptyCells(g) : TRUE
         IN  \E d \in Digits : Fits(g, c, d) /\ CanFill(SetCell(g, c, d))

\* g has a completion to a valid solution
Completable(g) == ~HasConflict(g) /\ CanFill(g)

\* calls of dfsolveAStar that have been entered and have not returned
ActiveCalls ==
    IF pc = "done" THEN 0
    ELSE Len(stack) + (IF pc \in {"call", "return_true"} THEN 1 ELSE 0)

Returned(b) == pc = "done" /\ outcome = b

\* placing digit d in cell c of g creates no duplicate anywhere in g
Legal(g, c, d) == ~HasConflict(SetCell(g, c, d))

\* the legal digits of cell c in g, in ascending order
LegalSeq(g, c) == Ascending({d \in Digits : Legal(g, c, d)})

StrictlyAscending(q) == \A m, n \in 1 .. Len(q) : m < n => q[m] < q[n]

\* a step in which a call refreshes the tables and invokes the selector
TablesRefreshed == pc = "call" /\ pc' # "return_true"

\* the table ps with the entry of every filled cell of g holding no digit
ZeroFilled(g, ps) ==
    [i \in Idx |-> [j \in Idx |->
        IF g[i][j] = 0 THEN ps[i][j] ELSE [k \in Idx |-> -1]]]

\* the cells of the 3x3 box that holds cell c
BoxOf(c) == {e \in Cells : e[1] \div 3 = c[1] \div 3 /\ e[2] \div 3 = c[2] \div 3}

\* the number of valid digits the table ps holds for the cells of U, summed
RECURSIVE SumCounts(_, _)
SumCounts(ps, U) ==
    IF U = {} THEN 0
    ELSE LET e == CHOOSE x \in U : TRUE
         IN  NumPoss(ps, e[1], e[2]) + SumCounts(ps, U \ {e})

\* the count of cell c, once, and the counts of the other cells of its row,
\* of its column and of its box
OwnOnceScore(ps, c) ==
    NumPoss(ps, c[1], c[2])
      + SumCounts(ps, RowCells(c[1]) \ {c})
      + SumCounts(ps, ColumnCells(c[2]) \ {c})
      + SumCounts(ps, BoxOf(c) \ {c})

\* the value minimal has in update_heuristics when the loop reaches cell c:
\* the least score of the empty cells visited before c
MinimalAt(g, hh, c) ==
    LET before == {e \in EmptyCells(g) : 9 * e[1] + e[2] < 9 * c[1] + c[2]}
    IN  IF before = {} THEN HighValue
        ELSE amin({At(hh, e) : e \in before})

\* the score of the empty cell c was extended and no addition was skipped:
\* the cell has three or more valid digits and its total never went above
\* the threshold
ExtendedInFull(g, hh, ps, c) ==
    /\ NumPoss(ps, c[1], c[2]) >= 3
    /\ At(hh, c) <= MinimalAt(g, hh, c)

\* the score of cell c under the scoring rule without early exit
FullScore(ps, c) == small_crossed_heuristics(c[1], c[2], ps, HighValue)

\* the innermost call has just selected a cell and found no number for it
EmptyPool == pc = "loop" /\ Top.numbers = <<>> /\ Top.placed = <<>>

----------------------------------------------------------------------------
(* Properties *)

\* C1: when the top-level call returns success, no cell is empty and every
\* row, column and box holds each digit 1..9 exactly once.
C1_SuccessIsSolution == Returned("True") => CompleteAndValid(sudoku)

C1_Witness == Returned("True") /\ Cardinality(EmptyCells(sudoku0)) >= 3

\* C2: a top-level call on a grid that has a completion returns success,
\* whatever cells the tie-break picks: it never ends with another result and
\* it does end.
C2_SolvableSucceeds ==
    /\ []((pc = "done" /\ Completable(sudoku0)) => outcome = "True")
    /\ (Completable(sudoku0) ~> Returned("True"))

C2_Witness ==
    /\ Returned("True")
    /\ EmptyCells(sudoku0) = HardBlank
    /\ num_nodes > Cardinality(HardBlank)
    /\ sudoku # Solution

\* C3: when the top-level call returns failure, the grid equals the grid the
\* call was entered with.
C3_FailureRestoresGrid == Returned("False") => sudoku = sudoku0

C3_Witness == Returned("False") /\ num_nodes >= 3

\* C4: in every state of a solve, every cell that was filled in the input
\* grid still holds its input digit.
C4_HintsUntouched ==
    \A c \in Cells : At(sudoku0, c) # 0 => At(sudoku, c) = At(sudoku0, c)

C4_Witness ==
    /\ pc = "loop"
    /\ Len(stack) = 1
    /\ num_nodes >= 2
    /\ At(sudoku, stack[1].cell) # 0

\* C5: a top-level call on a grid with a duplicate among its filled cells
\* returns failure.
C5_DuplicateInputFails == (pc = "done" /\ HasConflict(sudoku0)) => outcome = "False"

\* C6: a top-level call on a grid without duplicate and without completion
\* terminates, and it ends with the plain failure result.
C6_UnsolvableFails ==
    /\ []((pc = "done" /\ ~HasConflict(sudoku0) /\ ~Completable(sudoku0))
            => outcome = "False")
    /\ ((~HasConflict(sudoku0) /\ ~Completable(sudoku0)) ~> Returned("False"))

C6_Witness ==
    /\ Returned("False")
    /\ ~HasConflict(sudoku0)
    /\ ~Completable(sudoku0)
    /\ EmptyCells(sudoku0) = DeadEndBlank
    /\ num_nodes >= 2

\* C7: on a grid without empty cell the solver places nothing, returns
\* success if the grid is a valid solution and failure otherwise.
C7_FullGridVerdict ==
    (pc = "done" /\ EmptyCells(sudoku0) = {}) =>
        /\ num_nodes = 0
        /\ outcome = (IF CompleteAndValid(sudoku0) THEN "True" ELSE "False")

\* C8: a call of valid_sudoku leaves the grid as it found it, for every
\* position, empty or filled, and every digit.
C8_ValidSudokuPure == pc = "returned" => sudoku = sudoku0

\* C10: the number of nested calls is at most the number of cells the search
\* has filled, hence at most the number of cells empty in the input grid, and
\* the cells selected by the active calls are distinct cells that were empty
\* in the input grid.
C10_DepthBounded ==
    pc # "done" =>
        /\ ActiveCalls - 1 <= Cardinality(EmptyCells(sudoku0))
                                 - Cardinality(EmptyCells(sudoku))
        /\ ActiveCalls - 1 <= Cardinality(EmptyCells(sudoku0))
        /\ \A k \in 1 .. Len(stack) :
              /\ At(sudoku0, stack[k].cell) = 0
              /\ \A m \in 1 .. Len(stack) :
                    m # k => stack[m].cell # stack[k].cell

C10_Witness ==
    /\ pc = "call"
    /\ Len(stack) = Cardinality(EmptyCells(sudoku0))
    /\ Len(stack) = 4

\* C11: a call whose selected cell has no number to try returns failure to
\* its caller in its next step: it places nothing, enters no nested call,
\* leaves the expansion counter alone, and before and after that step the
\* grid is the grid the call was entered with.
C11_EmptyPoolFailsAtOnce ==
    [][/\ (pc = "call" /\ pc' = "loop" /\ Top'.numbers = <<>>) =>
              /\ sudoku' = sudoku
              /\ num_nodes' = num_nodes
       /\ EmptyPool =>
              /\ sudoku = Top.entry
              /\ sudoku' = Top.entry
              /\ num_nodes' = num_nodes
              /\ stack' = Pop
              /\ IF Len(stack) = 1
                 THEN pc' = "done" /\ outcome' = "False"
                 ELSE pc' = "loop"]_vars

\* a nested call that found no number for its cell has returned to its
\* caller, which is back in its loop on the grid it had left
C11_Witness ==
    /\ pc = "loop"
    /\ Top.placed # <<>>
    /\ sudoku = SetCell(Top.entry, Top.cell, Top.placed[Len(Top.placed)])
    /\ \E c \in EmptyCells(sudoku) :
          /\ c \in BestCells(h)
          /\ NumPoss(poss, c[1], c[2]) = 0

\* C12: the numbers a call iterates over are strictly ascending and each
\* placement writes a digit larger than every digit the call placed before;
\* a cell is emptied only by the innermost call, on its own cell, when it
\* returns, and that leaves the grid the call was entered with: every call
\* nested in it has returned and emptied its cell before.
C12_BacktrackingOrder ==
    /\ [](\A k \in 1 .. Len(stack) :
             StrictlyAscending(stack[k].placed \o stack[k].numbers))
    /\ [][/\ (pc = "loop" /\ pc' = "call") =>
                /\ sudoku' = SetCell(sudoku, Top.cell, Head(Top.numbers))
                /\ \A n \in 1 .. Len(Top.placed) :
                      Top.placed[n] < At(sudoku', Top.cell)
          /\ \A c \in Cells : (At(sudoku, c) # 0 /\ At(sudoku', c) = 0) =>
                /\ pc = "loop"
                /\ c = Top.cell
                /\ stack' = Pop
                /\ sudoku' = Top.entry
          /\ (pc = "loop" /\ Len(stack') < Len(stack)) =>
                sudoku' = Top.entry]_vars

\* a call has placed its second digit: the call nested in it for the first
\* digit has placed a digit of its own, emptied its cell and returned
C12_Witness ==
    /\ pc = "call"
    /\ Len(stack) >= 1
    /\ Len(Top.placed) = 2
    /\ Top.placed[1] < Top.placed[2]
    /\ At(sudoku, Top.cell) = Top.placed[2]
    /\ num_nodes >= Len(stack) + 2

\* C13: when the input grid has no duplicate among its filled cells, the
\* grid has none in any state of the solve, in particular at every call
\* entry and after every placement.
C13_NoDuplicateEver == ~HasConflict(sudoku0) => ~HasConflict(sudoku)

\* a call is entered right after a placement, three or more placements into
\* the search, on a grid that holds a digit the solved grid does not
C13_Witness ==
    /\ ~HasConflict(sudoku0)
    /\ pc = "call"
    /\ Len(stack) >= 2
    /\ num_nodes >= 3
    /\ \E c \in Cells : At(sudoku, c) # 0 /\ At(sudoku, c) # At(Solution, c)

\* C14: after every heuristic update a cell's score is 0 exactly when the
\* cell is filled and positive when it is empty, and the cell the selector
\* returns is empty and no empty cell has a smaller score.
C14_ScoresAndSelection ==
    [][TablesRefreshed =>
          /\ \A c \in Cells : (At(h', c) = 0) <=> (At(sudoku', c) # 0)
          /\ \A c \in EmptyCells(sudoku') : At(h', c) > 0
          /\ pc' = "loop" =>
                /\ At(sudoku', Top'.cell) = 0
                /\ \A e \in EmptyCells(sudoku') :
                      At(h', Top'.cell) <= At(h', e)]_vars

\* a nested call has just selected its cell: the cell of its caller is
\* filled and scores 0, and some empty cell scores more than the selected one
C14_Witness ==
    /\ pc = "loop"
    /\ Len(stack) >= 2
    /\ Top.placed = <<>>
    /\ At(sudoku, stack[1].cell) # 0
    /\ At(h, stack[1].cell) = 0
    /\ \E e \in EmptyCells(sudoku) : At(h, e) > At(h, Top.cell)

\* C15: the entries the possibility table holds for filled cells have no
\* influence on the scores: after every heuristic update the table is the
\* one the update computes when every filled cell contributes zero.
C15_FilledCellsContributeZero ==
    [][TablesRefreshed =>
          h' = update_heuristics(sudoku', h, ZeroFilled(sudoku', poss'))]_vars

\* C16: whenever the score of an empty cell is extended and not cut short,
\* it is the cell's own count plus the counts of the other cells of its row,
\* of its column and of its box: the own count enters once.
C16_OwnCountOnce ==
    [][TablesRefreshed =>
          \A c \in EmptyCells(sudoku') :
              ExtendedInFull(sudoku', h', poss', c) =>
                  At(h', c) = OwnOnceScore(poss', c)]_vars

\* C17: after every heuristic update on a grid with an empty cell, the least
\* positive entry of the table is the least score the empty cells get from
\* the scoring rule without early exit, and the selected cell has that score
\* under the rule without early exit.
C17_ShortCircuitKeepsMinimum ==
    [][(TablesRefreshed /\ EmptyCells(sudoku') # {}) =>
          LET m == amin({FullScore(poss', e) : e \in EmptyCells(sudoku')})
          IN  /\ amin(PositiveScores(h')) = m
              /\ pc' = "loop" => FullScore(poss', Top'.cell) = m]_vars

\* a call has just selected its cell from a table in which the score of some
\* empty cell was cut short in the middle of its sums: it is above the cell's
\* own count plus one and below the cell's score without early exit
C17_Witness ==
    /\ pc = "loop"
    /\ Top.placed = <<>>
    /\ \E e \in EmptyCells(sudoku) :
          /\ NumPoss(poss, e[1], e[2]) + 1 < At(h, e)
          /\ At(h, e) < FullScore(poss, e)
          /\ At(h, e) > At(h, Top.cell)

\* C18: a call starts its loop with exactly the digits that are legal for
\* its selected cell in the grid it was entered with, in ascending order and
\* each once; whatever the nested calls write into the shared tables, the
\* digits still to come, the digits already placed, the cell and the entry
\* grid of every call that stays active are left alone; each placement puts
\* the next of those digits into the selected cell, and the reset on failure
\* empties that cell.
C18_PlacesEntryLegalDigits ==
    [][/\ (pc = "call" /\ pc' = "loop") =>
              /\ Top'.entry = sudoku
              /\ At(sudoku, Top'.cell) = 0
              /\ Top'.placed = <<>>
              /\ Top'.numbers = LegalSeq(sudoku, Top'.cell)
       /\ \A k \in 1 .. Len(stack) : k <= Len(stack') =>
              /\ stack'[k].cell = stack[k].cell
              /\ stack'[k].entry = stack[k].entry
              /\ stack'[k].placed \o stack'[k].numbers
                    = stack[k].placed \o stack[k].numbers
       /\ (pc = "loop" /\ pc' = "call") =>
              /\ sudoku' = SetCell(sudoku, Top.cell, Head(Top.numbers))
              /\ Top'.placed = Append(Top.placed, Head(Top.numbers))
              /\ Top'.numbers = Tail(Top.numbers)
       /\ (pc = "loop" /\ Len(stack') < Len(stack)) =>
              /\ Top.numbers = <<>>
              /\ sudoku' = SetCell(sudoku, Top.cell, 0)]_vars

\* a call has placed its second digit after the call nested in it for the
\* first digit has overwritten the tables (the call's cell scores 0 there);
\* both digits are the legal digits of its cell in its entry grid
C18_Witness ==
    /\ pc = "call"
    /\ Len(stack) >= 1
    /\ Len(Top.placed) = 2
    /\ At(h, Top.cell) = 0
    /\ NumPoss(poss, Top.cell[1], Top.cell[2]) >= 2
    /\ Top.placed \o Top.numbers = LegalSeq(Top.entry, Top.cell)

\* C19: when the input grid has no duplicate among its filled cells, the
\* selector never fails during the solve, and every grid without empty cell
\* the search reaches is a valid solution.
C19_SelectorNeverFails ==
    ~HasConflict(sudoku0) =>
        /\ outcome # "ValueError"
        /\ EmptyCells(sudoku) = {} => CompleteAndValid(sudoku)

\* a call is entered on a grid without empty cell that the search has filled
\* after undoing an earlier placement
C19_Witness ==
    /\ ~HasConflict(sudoku0)
    /\ pc = "call"
    /\ EmptyCells(sudoku) = {}
    /\ num_nodes > Cardinality(EmptyCells(sudoku0))
    /\ Len(stack) = Cardinality(EmptyCells(sudoku0))

====
